---- MODULE Spec2Model ----
(***************************************************************************)
(* A model of mvtcurl's vector-tile decoder (src/src/lib.rs):               *)
(* decode_zigzag, parse_command, decode_geometry, convert_value and the     *)
(* layer/feature loop of mvt_to_json after the protobuf parse step.         *)
(*                                                                          *)
(* 32-bit words are kept bit-exact as pairs <<hi, lo>> of 16-bit halves,    *)
(* because the model checker's own integers are 32-bit signed and cannot    *)
(* hold a u32.  Signed i32 values are ordinary integers in                  *)
(* -2^31 .. 2^31 - 1; they are only ever combined through the word          *)
(* operators below, so no intermediate value leaves that range.             *)
(***************************************************************************)
EXTENDS Integers, Sequences, FiniteSets, TLC

VARIABLES
    pc,                 \* control point of the running function
    overflow_checks,    \* build profile: TRUE = overflow checks on (debug), FALSE = wrapping (release)
    tile,               \* the parsed protobuf message: a sequence of layers
    layers,             \* mvt_to_json: `layers`, the output built so far
    layer_i,            \* mvt_to_json: position of `for layer in tile.layers`
    features,           \* mvt_to_json: `features` of the current layer
    feature_i,          \* mvt_to_json: position of `for feature in layer.features`
    extent,             \* Extent of the current layer / decode_geometry's `extent`
    geom_type,          \* GeomType of the current feature / decode_geometry's `geom_type`
    geometry,           \* decode_geometry's `geometry` slice
    coordinates,        \* decode_geometry: `coordinates`
    x,                  \* decode_geometry: cursor x (i32)
    y,                  \* decode_geometry: cursor y (i32)
    i,                  \* decode_geometry: read index
    rep,                \* decode_geometry: iterations left of `for _ in 0..count`
    ret,                \* value returned by the function that ran last
    properties,         \* mvt_to_json: `properties` of the current feature
    tag_i,              \* mvt_to_json: `i` of the tag loop
    trunc,              \* history: the decode_geometry state when a repetition first broke off
    call                \* the pure-function harness: [fn, arg] of the call being made

vars == <<pc, overflow_checks, tile, layers, layer_i, features, feature_i, extent,
          geom_type, geometry, coordinates, x, y, i, rep, ret, properties, tag_i,
          trunc, call>>

(***************************************************************************)
(* 32-bit words                                                             *)
(***************************************************************************)
Half == 2^16

HalfMax == Half - 1

\* the word of a natural number below 2^31
W(n) == <<n \div Half, n % Half>>

\* the value of a word whose top bit is clear
Nat32(w) == (w[1] * Half) + w[2]

RECURSIVE BitXor(_, _, _)
BitXor(a, b, n) ==
    IF n = 0 THEN 0
    ELSE (((a % 2) + (b % 2)) % 2) + 2 * BitXor(a \div 2, b \div 2, n - 1)

RECURSIVE BitAnd(_, _, _)
BitAnd(a, b, n) ==
    IF n = 0 THEN 0
    ELSE ((a % 2) * (b % 2)) + 2 * BitAnd(a \div 2, b \div 2, n - 1)

\* `^` on 32-bit patterns
Xor32(u, v) == <<BitXor(u[1], v[1], 16), BitXor(u[2], v[2], 16)>>

\* `&` on 32-bit patterns
And32(u, v) == <<BitAnd(u[1], v[1], 16), BitAnd(u[2], v[2], 16)>>

\* logical `>>` of a u32 by 0 < k < 16
Shr32(u, k) == <<u[1] \div (2^k), ((u[1] % (2^k)) * (2^(16 - k))) + (u[2] \div (2^k))>>

\* `<<` of a 32-bit pattern by 0 < k < 16 (bits shifted out are lost)
Shl32(u, k) ==
    <<((u[1] * (2^k)) + (u[2] \div (2^(16 - k)))) % Half, (u[2] * (2^k)) % Half>>

\* wrapping addition of 32-bit patterns
Add32(u, v) ==
    LET lo == u[2] + v[2]
    IN  <<(u[1] + v[1] + (lo \div Half)) % Half, lo % Half>>

\* two's-complement negation of a 32-bit pattern
Neg32(u) == Add32(<<HalfMax - u[1], HalfMax - u[2]>>, W(1))

\* `as i32` of a u32: the same bits read as a signed value
AsI32(u) == ((IF u[1] >= (Half \div 2) THEN u[1] - Half ELSE u[1]) * Half) + u[2]

\* `as u32` of an i32: the same bits read as an unsigned word
AsU32(v) == <<(v \div Half) % Half, v % Half>>

MaxI32 == (2^30 - 1) + 2^30

MinI32 == (-MaxI32) - 1

\* `a + b` on i32 in a build without overflow checks: two's-complement wrap
WrappingAdd(a, b) == AsI32(Add32(AsU32(a), AsU32(b)))

\* whether `a + b` leaves the i32 range (the operands' signs agree and the
\* wrapped sum's sign differs)
AddOverflows(a, b) ==
    LET s == WrappingAdd(a, b)
    IN  \/ (a >= 0 /\ b >= 0 /\ s < 0)
        \/ (a < 0 /\ b < 0 /\ s >= 0)

(***************************************************************************)
(* serde_json::Value, as tagged tuples                                      *)
(***************************************************************************)
JNull == <<"null">>

JBool(b) == <<"bool", b>>

JStr(s) == <<"str", s>>

\* Number::PosInt / Number::NegInt: an integer, whatever integer type it came from
JInt(v) == <<"int", v>>

\* Number::Float: a finite float, kept as the reduced fraction n/d
JFloat(n, d) == <<"float", n, d>>

JArr(s) == <<"arr", s>>

\* HashMap::new()
EmptyMap == [k \in {} |-> JNull]

MapInsert_KeepFirst(m, key, v) ==
    [k \in DOMAIN m \cup {key} |-> IF k \in DOMAIN m THEN m[k] ELSE v]

\* HashMap::insert: a later value for the same key replaces the earlier one
MapInsert(m, key, v) ==
    [k \in DOMAIN m \cup {key} |-> IF k = key THEN v ELSE m[k]]

\* Option<T>: None is the empty sequence, Some(v) is <<v>>
None == <<>>

Some(v) == <<v>>

\* floats (f32/f64): a finite value n/d, or a non-finite one
Fin(n, d) == <<"fin", n, d>>

NaN == <<"nan">>

Inf(sign) == <<"inf", sign>>

\* json!(f) of a float: Number::from_f64 has no non-finite numbers, they become null
JsonFloat(f) == IF f[1] = "fin" THEN JFloat(f[2], f[3]) ELSE JNull

RECURSIVE Gcd(_, _)
Gcd(a, b) == IF b = 0 THEN a ELSE Gcd(b, a % b)

(***************************************************************************)
(* Extent                                                                   *)
(***************************************************************************)
DEFAULT_EXTENT == 4096

\* Extent::default / layer.extent.map(Extent::new).unwrap_or_default()
ExtentOf(opt) == IF opt = None THEN DEFAULT_EXTENT ELSE opt[1]

\* Extent::normalize: value as f64 / self.0 as f64.  Both conversions are exact;
\* the quotient is kept as an exact reduced fraction (its rounding to the nearest
\* f64 is not modelled).  A zero extent gives IEEE NaN or an infinity.
normalize(e, value) ==
    IF e = 0
    THEN (IF value = 0 THEN NaN ELSE Inf(IF value > 0 THEN 1 ELSE -1))
    ELSE LET g == Gcd(e, value % e)
         IN  Fin(value \div g, e \div g)

(***************************************************************************)
(* decode_zigzag, parse_command                                             *)
(***************************************************************************)
decode_zigzag_NoShift(value) ==
    AsI32(Xor32(value, Neg32(And32(value, W(1)))))

\* ((value >> 1) as i32) ^ (-((value & 1) as i32))
decode_zigzag(value) ==
    AsI32(Xor32(Shr32(value, 1), Neg32(And32(value, W(1)))))

parse_command_Mask3(cmd_int) ==
    <<Nat32(And32(cmd_int, W(3))), Nat32(Shr32(cmd_int, 3))>>

\* (cmd_int & 0x7, (cmd_int >> 3) as usize)
parse_command(cmd_int) ==
    <<Nat32(And32(cmd_int, W(7))), Nat32(Shr32(cmd_int, 3))>>

(***************************************************************************)
(* convert_value                                                            *)
(***************************************************************************)
convert_value_UintFirst(value) ==
    IF value.string_value # None THEN JStr(value.string_value[1])
    ELSE IF value.float_value # None THEN JsonFloat(value.float_value[1])
    ELSE IF value.double_value # None THEN JsonFloat(value.double_value[1])
    ELSE IF value.uint_value # None THEN JInt(value.uint_value[1])
    ELSE IF value.int_value # None THEN JInt(value.int_value[1])
    ELSE IF value.sint_value # None THEN JInt(value.sint_value[1])
    ELSE IF value.bool_value # None THEN JBool(value.bool_value[1])
    ELSE JNull

convert_value(value) ==
    IF value.string_value # None THEN JStr(value.string_value[1])
    ELSE IF value.float_value # None THEN JsonFloat(value.float_value[1])
    ELSE IF value.double_value # None THEN JsonFloat(value.double_value[1])
    ELSE IF value.int_value # None THEN JInt(value.int_value[1])
    ELSE IF value.uint_value # None THEN JInt(value.uint_value[1])
    ELSE IF value.sint_value # None THEN JInt(value.sint_value[1])
    ELSE IF value.bool_value # None THEN JBool(value.bool_value[1])
    ELSE JNull

(***************************************************************************)
(* decode_geometry                                                          *)
(*                                                                          *)
(* The read index i is 0-based as in the source; geometry[i] of the source  *)
(* is At(geometry, i).  pc is "dg_while" at the head of the while loop,     *)
(* "dg_moveto" / "dg_lineto" at the head of the for loop of a MoveTo /      *)
(* LineTo command with rep iterations left, "dg_returned" after the         *)
(* function returned (ret holds the value), "panic" after a Rust panic      *)
(* (ret holds the message).                                                 *)
(***************************************************************************)
GeomTypes == {"Unknown", "Point", "Linestring", "Polygon"}

At(seq, idx) == seq[idx + 1]

OverflowPanic == <<"panic", "attempt to add with overflow">>

IndexPanic == <<"panic", "index out of bounds">>

Truncated_OffByOne(idx, len) == idx >= len

\* `if i + 1 >= geometry.len() { break; }`
Truncated(idx, len) == idx + 1 >= len

\* json!([norm_x, norm_y])
PointJson(e, px, py) == JArr(<<JsonFloat(normalize(e, px)), JsonFloat(normalize(e, py))>>)

\* `if let Some(last) = coordinates.last_mut() { if let Some(arr) = last.as_array_mut()
\*  { arr.push(point) } }`
PushToLast(coords, point) ==
    IF coords = <<>> THEN coords
    ELSE LET last == coords[Len(coords)]
         IN  IF last[1] = "arr"
             THEN [coords EXCEPT ![Len(coords)] = JArr(Append(last[2], point))]
             ELSE coords

\* the `match geom_type` of a MoveTo repetition
MoveToEmit(coords, gt, point) ==
    CASE gt = "Point" -> Append(coords, point)
      [] gt \in {"Linestring", "Polygon"} ->
            PushToLast(IF coords = <<>> THEN <<JArr(<<>>)>> ELSE coords, point)
      [] OTHER -> coords

\* the body of a LineTo repetition after the cursor moved
LineToEmit(coords, gt, point) == PushToLast(coords, point)

Collapse_Always(gt, coords) ==
    IF gt \in {"Point", "Linestring", "Polygon"} /\ Len(coords) = 1
    THEN coords[1]
    ELSE JArr(coords)

\* the final `match geom_type` of decode_geometry
Collapse(gt, coords) ==
    IF gt = "Point" /\ Len(coords) = 1 THEN coords[1]
    ELSE IF gt = "Linestring" /\ Len(coords) = 1 THEN coords[1]
    ELSE JArr(coords)

\* the state on entry to decode_geometry(g, gt, e), after its `let mut` lines
DG_Entry(g, gt, e) ==
    /\ geometry = g
    /\ geom_type = gt
    /\ extent = e
    /\ coordinates = <<>>
    /\ x = 0
    /\ y = 0
    /\ i = 0
    /\ rep = 0
    /\ trunc = None
    /\ pc = "dg_while"

\* the call decode_geometry(g, gt, e) as a step of the caller
DG_Call(g, gt, e) ==
    /\ geometry' = g
    /\ geom_type' = gt
    /\ coordinates' = <<>>
    /\ x' = 0
    /\ y' = 0
    /\ i' = 0
    /\ rep' = 0
    /\ trunc' = None
    /\ pc' = "dg_while"
    /\ UNCHANGED extent

callerVars == <<overflow_checks, tile, layers, layer_i, features, feature_i,
                properties, tag_i, call>>

DG_Command_ClosePathSkips ==
    /\ pc = "dg_while"
    /\ i < Len(geometry)
    /\ LET parsed == parse_command(At(geometry, i))
           cmd == parsed[1]
           count == parsed[2]
       IN  /\ i' = (IF cmd = 7 THEN i + 1 + (2 * count) ELSE i + 1)
           /\ IF cmd \in {1, 2} /\ count > 0
              THEN /\ rep' = count
                   /\ pc' = (IF cmd = 1 THEN "dg_moveto" ELSE "dg_lineto")
              ELSE /\ rep' = 0
                   /\ pc' = "dg_while"
    /\ UNCHANGED <<geometry, geom_type, extent, coordinates, x, y, ret, trunc, callerVars>>

\* while i < geometry.len(): read and parse one command integer, i += 1; the arms
\* `7 => {}` and `_ => {}` do nothing, and a count of 0 runs no repetition
DG_Command ==
    /\ pc = "dg_while"
    /\ i < Len(geometry)
    /\ LET parsed == parse_command(At(geometry, i))
           cmd == parsed[1]
           count == parsed[2]
       IN  /\ i' = i + 1
           /\ IF cmd \in {1, 2} /\ count > 0
              THEN /\ rep' = count
                   /\ pc' = (IF cmd = 1 THEN "dg_moveto" ELSE "dg_lineto")
              ELSE /\ rep' = 0
                   /\ pc' = "dg_while"
    /\ UNCHANGED <<geometry, geom_type, extent, coordinates, x, y, ret, trunc, callerVars>>

\* one pass through the for loop of a MoveTo (cmd = 1) or a LineTo (cmd = 2):
\* break when fewer than two integers remain, else read dx, dy, move the cursor
\* and emit the normalized point
DG_Repetition(cmd) ==
    IF Truncated(i, Len(geometry))
    THEN /\ pc' = "dg_while"
         /\ rep' = 0
         /\ trunc' = (IF trunc = None
                      THEN Some([coordinates |-> coordinates, x |-> x, y |-> y, i |-> i])
                      ELSE trunc)
         /\ UNCHANGED <<coordinates, x, y, i, ret>>
    ELSE IF ~(i < Len(geometry) /\ i + 1 < Len(geometry))
    THEN /\ pc' = "panic"
         /\ ret' = IndexPanic
         /\ UNCHANGED <<coordinates, x, y, i, rep, trunc>>
    ELSE LET dx == decode_zigzag(At(geometry, i))
             dy == decode_zigzag(At(geometry, i + 1))
             nx == WrappingAdd(x, dx)
             ny == WrappingAdd(y, dy)
         IN  IF overflow_checks /\ AddOverflows(x, dx)
             THEN /\ pc' = "panic"
                  /\ ret' = OverflowPanic
                  /\ UNCHANGED <<coordinates, x, y, i, rep, trunc>>
             ELSE IF overflow_checks /\ AddOverflows(y, dy)
             THEN /\ pc' = "panic"
                  /\ ret' = OverflowPanic
                  /\ x' = nx
                  /\ UNCHANGED <<coordinates, y, i, rep, trunc>>
             ELSE /\ x' = nx
                  /\ y' = ny
                  /\ i' = i + 2
                  /\ coordinates' = (IF cmd = 1
                                   THEN MoveToEmit(coordinates, geom_type, PointJson(extent, nx, ny))
                                   ELSE LineToEmit(coordinates, geom_type, PointJson(extent, nx, ny)))
                  /\ rep' = rep - 1
                  /\ pc' = (IF rep = 1 THEN "dg_while" ELSE pc)
                  /\ UNCHANGED <<ret, trunc>>

DG_MoveTo ==
    /\ pc = "dg_moveto"
    /\ DG_Repetition(1)
    /\ UNCHANGED <<geometry, geom_type, extent, callerVars>>

DG_LineTo ==
    /\ pc = "dg_lineto"
    /\ DG_Repetition(2)
    /\ UNCHANGED <<geometry, geom_type, extent, callerVars>>

\* the while loop ends: the final match builds the return value
DG_Return ==
    /\ pc = "dg_while"
    /\ i >= Len(geometry)
    /\ ret' = Collapse(geom_type, coordinates)
    /\ pc' = "dg_returned"
    /\ UNCHANGED <<geometry, geom_type, extent, coordinates, x, y, i, rep, trunc, callerVars>>

(***************************************************************************)
(* decode_geometry on its own: every geometry array up to MaxGeomLen words  *)
(* over GeomWords, and every stream of up to MaxBlocks well-formed command  *)
(* blocks, for each geometry type, extent and build profile.                *)
(***************************************************************************)
MaxGeomLen == 4

MaxBlocks == 3

\* 0xFFFFFFFE: as a parameter the delta i32::MAX, as a command id 6
MaxDeltaWord == <<HalfMax, HalfMax - 1>>

\* words that are both commands and parameters: 9 = MoveTo x1 / -5,
\* 10 = LineTo x1 / +5, 15 = ClosePath x1 / -8, 17 = MoveTo x2 / -9
GeomWords == {W(9), W(10), W(15), W(17), MaxDeltaWord}

SeqsUpTo(S, n) == UNION {[1 .. k -> S] : k \in 0 .. n}

\* (dx, dy) parameter pairs: (+1, +2) and (i32::MAX, -1)
ParamPairs == {<<W(2), W(4)>>, <<MaxDeltaWord, W(1)>>}

\* MoveTo x1 with its point, LineTo x1 with its point, ClosePath x1
Blocks == {<<W(9), p[1], p[2]>> : p \in ParamPairs}
          \cup {<<W(10), p[1], p[2]>> : p \in ParamPairs}
          \cup {<<W(15)>>}

RECURSIVE Flatten(_)
Flatten(ss) == IF ss = <<>> THEN <<>> ELSE Head(ss) \o Flatten(Tail(ss))

BlockStreams == {Flatten(bs) : bs \in SeqsUpTo(Blocks, MaxBlocks)}

\* MoveTo (+1,+2), 23 = ClosePath with a repeat count of 2, LineTo (+1,+2); and
\* the same ClosePath in front of two integers a parameter read would consume
RepeatedClose == {<<W(9), W(2), W(4), W(23), W(10), W(2), W(4)>>,
                  <<W(23), W(9), W(2), W(4)>>}

GeomInputs == SeqsUpTo(GeomWords, MaxGeomLen) \cup BlockStreams \cup RepeatedClose

ExtentInputs == {DEFAULT_EXTENT, 1}

InitGeom ==
    /\ overflow_checks \in BOOLEAN
    /\ \E g \in GeomInputs, gt \in GeomTypes, e \in ExtentInputs : DG_Entry(g, gt, e)
    /\ ret = None
    /\ tile = <<>>
    /\ layers = <<>>
    /\ layer_i = 0
    /\ features = <<>>
    /\ feature_i = 0
    /\ properties = EmptyMap
    /\ tag_i = 0
    /\ call = <<"decode_geometry">>

NextGeom == DG_Command \/ DG_MoveTo \/ DG_LineTo \/ DG_Return

SpecGeom == InitGeom /\ [][NextGeom]_vars

(***************************************************************************)
(* Reference reading of a well-formed command stream, as sections 4.3 and 8 *)
(* of the specification describe it (used only to state claims).            *)
(***************************************************************************)
\* from index k on, g is MoveTo x1 / LineTo xn / ClosePath commands, each with all
\* its parameter integers, LineTo and ClosePath only after a MoveTo
RECURSIVE IsRingStream(_, _, _)
IsRingStream(g, k, started) ==
    IF k >= Len(g) THEN k = Len(g)
    ELSE LET c == parse_command(At(g, k))
         IN  CASE c = <<1, 1>> /\ k + 2 < Len(g) -> IsRingStream(g, k + 3, TRUE)
               [] c[1] = 2 /\ c[2] >= 1 /\ started /\ k + (2 * c[2]) < Len(g) ->
                      IsRingStream(g, k + 1 + (2 * c[2]), TRUE)
               [] c[1] = 7 /\ started -> IsRingStream(g, k + 1, TRUE)
               [] OTHER -> FALSE

\* the rings of a ring stream: every MoveTo opens a ring with its point, every
\* LineTo point goes to the ring opened last
RECURSIVE ExpectedRings(_, _, _, _, _, _, _)
ExpectedRings(g, e, k, pending, cx, cy, rings) ==
    IF pending > 0
    THEN LET nx == WrappingAdd(cx, decode_zigzag(At(g, k)))
             ny == WrappingAdd(cy, decode_zigzag(At(g, k + 1)))
             n == Len(rings)
         IN  ExpectedRings(g, e, k + 2, pending - 1, nx, ny,
                 [rings EXCEPT ![n] = JArr(Append(rings[n][2], PointJson(e, nx, ny)))])
    ELSE IF k >= Len(g) THEN rings
    ELSE LET c == parse_command(At(g, k))
         IN  IF c[1] = 1
             THEN LET nx == WrappingAdd(cx, decode_zigzag(At(g, k + 1)))
                      ny == WrappingAdd(cy, decode_zigzag(At(g, k + 2)))
                  IN  ExpectedRings(g, e, k + 3, 0, nx, ny,
                          Append(rings, JArr(<<PointJson(e, nx, ny)>>)))
             ELSE IF c[1] = 2 THEN ExpectedRings(g, e, k + 1, c[2], cx, cy, rings)
             ELSE ExpectedRings(g, e, k + 1, 0, cx, cy, rings)

\* number of MoveTo commands of a ring stream
RECURSIVE MoveToCount(_, _)
MoveToCount(g, k) ==
    IF k >= Len(g) THEN 0
    ELSE LET c == parse_command(At(g, k))
         IN  IF c[1] = 1 THEN 1 + MoveToCount(g, k + 3)
             ELSE IF c[1] = 2 THEN MoveToCount(g, k + 1 + (2 * c[2]))
             ELSE MoveToCount(g, k + 1)

\* from index k on, g is LineTo xn commands only, each with all its parameters
RECURSIVE IsLineToStream(_, _)
IsLineToStream(g, k) ==
    IF k >= Len(g) THEN k = Len(g)
    ELSE LET c == parse_command(At(g, k))
         IN  /\ c[1] = 2
             /\ c[2] >= 1
             /\ k + (2 * c[2]) < Len(g)
             /\ IsLineToStream(g, k + 1 + (2 * c[2]))

\* one MoveTo x1 with its point, then LineTo commands with all their points
IsLineStream(g) ==
    /\ Len(g) >= 3
    /\ parse_command(At(g, 0)) = <<1, 1>>
    /\ IsLineToStream(g, 3)

\* the delta pairs of a line stream in order: the parameter integers, zigzag-decoded
RECURSIVE DeltaPairs(_, _, _)
DeltaPairs(g, k, pending) ==
    IF pending > 0
    THEN <<<<decode_zigzag(At(g, k)), decode_zigzag(At(g, k + 1))>>>>
         \o DeltaPairs(g, k + 2, pending - 1)
    ELSE IF k >= Len(g) THEN <<>>
    ELSE DeltaPairs(g, k + 1, parse_command(At(g, k))[2])

\* the running sums of delta pairs from (0,0) as <<fits, points>>: fits is FALSE
\* when a partial sum leaves the i32 range (no i32 cursor can hold it)
RECURSIVE RunningSums(_, _, _, _, _)
RunningSums(ds, e, cx, cy, pts) ==
    IF ds = <<>> THEN <<TRUE, pts>>
    ELSE LET d == Head(ds)
         IN  IF AddOverflows(cx, d[1]) \/ AddOverflows(cy, d[2])
             THEN <<FALSE, pts>>
             ELSE RunningSums(Tail(ds), e, cx + d[1], cy + d[2],
                              Append(pts, PointJson(e, cx + d[1], cy + d[2])))

IsNumber(v) == v[1] \in {"float", "null"}

IsPoint(v) == v[1] = "arr" /\ Len(v[2]) = 2 /\ IsNumber(v[2][1]) /\ IsNumber(v[2][2])

IsRing(v) == v[1] = "arr" /\ \A k \in 1 .. Len(v[2]) : IsPoint(v[2][k])

(***************************************************************************)
(* C1: for a LineString or Polygon feature whose geometry is a ring stream  *)
(* with k MoveTo commands, decode_geometry builds exactly k rings, the j-th *)
(* holding the j-th MoveTo point and the LineTo points up to the next       *)
(* MoveTo.  (The code opens a ring only while the list is empty.)           *)
(***************************************************************************)
RingPerMoveTo ==
    (/\ pc = "dg_returned"
     /\ geom_type \in {"Linestring", "Polygon"}
     /\ IsRingStream(geometry, 0, FALSE)) =>
        /\ Len(coordinates) = MoveToCount(geometry, 0)
        /\ coordinates = ExpectedRings(geometry, extent, 0, 0, 0, 0, <<>>)

(***************************************************************************)
(* C2: no repetition reads an index at or past the end of the array, and    *)
(* once a MoveTo or LineTo repetition found fewer than two integers left,   *)
(* the coordinate list and the cursor never change again, nothing fails,    *)
(* and the value returned is built from exactly the coordinates that        *)
(* existed at that moment.                                                  *)
(***************************************************************************)
TruncationStops ==
    /\ ~(pc = "panic" /\ ret = IndexPanic)
    /\ (trunc # None) =>
        /\ trunc[1].i + 1 >= Len(geometry)
        /\ i >= trunc[1].i
        /\ coordinates = trunc[1].coordinates
        /\ x = trunc[1].x
        /\ y = trunc[1].y
        /\ pc # "panic"
        /\ (pc = "dg_returned" => ret = Collapse(geom_type, trunc[1].coordinates))

\* a LineTo found one integer left after points had been built, that integer was
\* then read as a command, and the function returned
TruncationWitness ==
    /\ pc = "dg_returned"
    /\ trunc # None
    /\ trunc[1].i + 1 = Len(geometry)
    /\ i = Len(geometry)
    /\ geom_type = "Polygon"
    /\ trunc[1].coordinates # <<>>
    /\ ret = JArr(trunc[1].coordinates)

LineStringSums ==
    (geom_type = "Linestring" /\ IsLineStream(geometry)) =>
        /\ pc # "panic"
        /\ (pc = "dg_while" /\ i = 0) => (x = 0 /\ y = 0)
        /\ (pc = "dg_returned") =>
              LET deltas == DeltaPairs(geometry, 0, 0)
                  sums == RunningSums(deltas, extent, 0, 0, <<>>)
              IN  /\ sums[1]
                  /\ ret[1] = "arr"
                  /\ Len(ret[2]) = Len(deltas)
                  /\ ret = JArr(sums[2])

\* from index k on, every MoveTo and LineTo command of g has a positive count and
\* all its parameter integers; any other command stands alone
RECURSIVE IsCommandStream(_, _)
IsCommandStream(g, k) ==
    IF k >= Len(g) THEN k = Len(g)
    ELSE LET c == parse_command(At(g, k))
         IN  IF c[1] \in {1, 2}
             THEN /\ c[2] >= 1
                  /\ k + (2 * c[2]) < Len(g)
                  /\ IsCommandStream(g, k + 1 + (2 * c[2]))
             ELSE IsCommandStream(g, k + 1)

\* the flat point list of a command stream: one point per MoveTo parameter pair;
\* a LineTo pair moves the cursor only (cmd is the command the pending pairs
\* belong to)
RECURSIVE ExpectedPoints(_, _, _, _, _, _, _, _)
ExpectedPoints(g, e, k, pending, cmd, cx, cy, pts) ==
    IF pending > 0
    THEN LET nx == WrappingAdd(cx, decode_zigzag(At(g, k)))
             ny == WrappingAdd(cy, decode_zigzag(At(g, k + 1)))
         IN  ExpectedPoints(g, e, k + 2, pending - 1, cmd, nx, ny,
                 IF cmd = 1 THEN Append(pts, PointJson(e, nx, ny)) ELSE pts)
    ELSE IF k >= Len(g) THEN pts
    ELSE LET c == parse_command(At(g, k))
         IN  IF c[1] \in {1, 2}
             THEN ExpectedPoints(g, e, k + 1, c[2], c[1], cx, cy, pts)
             ELSE ExpectedPoints(g, e, k + 1, 0, 0, cx, cy, pts)

(***************************************************************************)
(* C11: in a Point feature the coordinate list holds only (x, y) pairs of   *)
(* two numbers at every moment, and on return from a stream of complete     *)
(* commands it is exactly the list of MoveTo points: a LineTo moves the     *)
(* cursor but adds nothing and changes no point already emitted.  (The      *)
(* code's LineTo pushes into the last element whenever it is an array, and  *)
(* a point is an array.)                                                    *)
(***************************************************************************)
PointPairsOnly ==
    (geom_type = "Point") =>
        /\ \A k \in 1 .. Len(coordinates) : IsPoint(coordinates[k])
        /\ (pc = "dg_returned" /\ IsCommandStream(geometry, 0)) =>
              coordinates = ExpectedPoints(geometry, extent, 0, 0, 0, 0, 0, <<>>)

(***************************************************************************)
(* C12: a step that reads a ClosePath command (id 7) or a command whose id  *)
(* is not 1, 2 or 7 leaves the cursor and the coordinate list unchanged and *)
(* advances the read index by exactly one, whatever the repeat count; the   *)
(* loop is then back at its head, so the next integer is read as a command. *)
(***************************************************************************)
NoEffectCommands ==
    [][(/\ pc = "dg_while"
        /\ i < Len(geometry)
        /\ parse_command(At(geometry, i))[1] \notin {1, 2}) =>
            /\ i' = i + 1
            /\ x' = x
            /\ y' = y
            /\ coordinates' = coordinates
            /\ rep' = 0
            /\ pc' = "dg_while"]_vars

\* MoveTo (+1,+2), then ClosePath with repeat count 2 was read: the index moved
\* from 3 to 4, the cursor and the one ring are as the MoveTo left them, and the
\* LineTo at index 4 is next to be read as a command
NoEffectWitness ==
    /\ pc = "dg_while"
    /\ geom_type = "Polygon"
    /\ Len(geometry) = 7
    /\ parse_command(At(geometry, 0)) = <<1, 1>>
    /\ parse_command(At(geometry, 3)) = <<7, 2>>
    /\ parse_command(At(geometry, 4)) = <<2, 1>>
    /\ i = 4
    /\ x = 1
    /\ y = 2
    /\ coordinates = <<JArr(<<PointJson(extent, 1, 2)>>)>>

(***************************************************************************)
(* mvt_to_json, after vector_tile::Tile::decode succeeded                   *)
(*                                                                          *)
(* pc is "layer_loop" at the head of `for layer in tile.layers`,            *)
(* "feature_loop" at the head of `for feature in layer.features`, one of    *)
(* decode_geometry's control points during the call, "tags" in the tag      *)
(* loop, "done" after Ok(TileData { layers }) was returned.  layer_i and    *)
(* feature_i count the layers and features already taken from the input.    *)
(***************************************************************************)
\* the generated enum's TryFrom<i32>: Some(variant) for 0..3, None for an error
GeomType_try_from(code) ==
    CASE code = 0 -> Some("Unknown")
      [] code = 1 -> Some("Point")
      [] code = 2 -> Some("Linestring")
      [] code = 3 -> Some("Polygon")
      [] OTHER -> None

\* GeomType::try_from(feature.r#type.unwrap_or(0)).unwrap_or(GeomType::Unknown)
GeomTypeOf(type) ==
    LET r == GeomType_try_from(IF type = None THEN 0 ELSE type[1])
    IN  IF r = None THEN "Unknown" ELSE r[1]

geometry_type_PolygonAsUnknown(gt) ==
    CASE gt = "Point" -> "Point"
      [] gt = "Linestring" -> "LineString"
      [] OTHER -> "Unknown"

\* `let geometry_type = match geom_type { ... }`
geometry_type(gt) ==
    CASE gt = "Point" -> "Point"
      [] gt = "Linestring" -> "LineString"
      [] gt = "Polygon" -> "Polygon"
      [] OTHER -> "Unknown"

CurrentLayer == tile[layer_i + 1]

CurrentFeature == CurrentLayer.features[feature_i + 1]

tileVars == <<overflow_checks, tile, call>>

geomVars == <<geometry, geom_type, coordinates, x, y, i, rep, trunc>>

\* for layer in tile.layers: take the next layer, or return Ok(TileData { layers })
MJ_Layer ==
    /\ pc = "layer_loop"
    /\ IF layer_i < Len(tile)
       THEN /\ extent' = ExtentOf(CurrentLayer.extent)
            /\ features' = <<>>
            /\ feature_i' = 0
            /\ pc' = "feature_loop"
            /\ UNCHANGED ret
       ELSE /\ ret' = <<"Ok", [layers |-> layers]>>
            /\ pc' = "done"
            /\ UNCHANGED <<extent, features, feature_i>>
    /\ UNCHANGED <<layers, layer_i, properties, tag_i, geomVars, tileVars>>

\* for feature in layer.features: resolve the geometry type and call decode_geometry
MJ_Feature ==
    /\ pc = "feature_loop"
    /\ feature_i < Len(CurrentLayer.features)
    /\ DG_Call(CurrentFeature.geometry, GeomTypeOf(CurrentFeature.type), extent)
    /\ UNCHANGED <<layers, layer_i, features, feature_i, properties, tag_i, ret, tileVars>>

\* decode_geometry returned: `let mut properties = HashMap::new(); let tags = feature.tags;`
MJ_Properties ==
    /\ pc = "dg_returned"
    /\ properties' = EmptyMap
    /\ tag_i' = 0
    /\ pc' = "tags"
    /\ UNCHANGED <<layers, layer_i, features, feature_i, extent, ret, geomVars, tileVars>>

\* one iteration of `for i in (0..tags.len()).step_by(2)`
MJ_Tag ==
    /\ pc = "tags"
    /\ tag_i < Len(CurrentFeature.tags)
    /\ LET tags == CurrentFeature.tags
           keys == CurrentLayer.keys
           values == CurrentLayer.values
       IN  IF tag_i + 1 < Len(tags)
              /\ At(tags, tag_i) < Len(keys)
              /\ At(tags, tag_i + 1) < Len(values)
           THEN properties' = MapInsert(properties, At(keys, At(tags, tag_i)),
                                        convert_value(At(values, At(tags, tag_i + 1))))
           ELSE UNCHANGED properties
    /\ tag_i' = tag_i + 2
    /\ UNCHANGED <<pc, layers, layer_i, features, feature_i, extent, ret, geomVars, tileVars>>

\* the tag loop ended: features.push(GeoJsonFeature { ... })
MJ_PushFeature ==
    /\ pc = "tags"
    /\ tag_i >= Len(CurrentFeature.tags)
    /\ features' = Append(features,
            [type_ |-> "Feature",
             id |-> CurrentFeature.id,
             geometry |-> [type_ |-> geometry_type(geom_type), coordinates |-> ret],
             properties |-> properties])
    /\ feature_i' = feature_i + 1
    /\ pc' = "feature_loop"
    /\ UNCHANGED <<layers, layer_i, extent, properties, tag_i, ret, geomVars, tileVars>>

\* the feature loop ended: layers.push(Layer { ... })
MJ_PushLayer ==
    /\ pc = "feature_loop"
    /\ feature_i >= Len(CurrentLayer.features)
    /\ layers' = Append(layers,
            [name |-> CurrentLayer.name,
             extent |-> extent,
             version |-> CurrentLayer.version,
             features |-> features])
    /\ layer_i' = layer_i + 1
    /\ pc' = "layer_loop"
    /\ UNCHANGED <<features, feature_i, extent, properties, tag_i, ret, geomVars, tileVars>>

(***************************************************************************)
(* The tiles decoded                                                        *)
(***************************************************************************)
MaxTypeCode == 4

MaxFeatures == 2

MaxTags == 6

TileFeature(id, type, tags, g) == [id |-> id, type |-> type, tags |-> tags, geometry |-> g]

TileLayer(e, keys, values, fs) ==
    [name |-> "roads", version |-> 2, extent |-> e, keys |-> keys, values |-> values,
     features |-> fs]

NoValue ==
    [string_value |-> None, float_value |-> None, double_value |-> None,
     int_value |-> None, uint_value |-> None, sint_value |-> None, bool_value |-> None]

TypeInputs == {None} \cup {Some(c) : c \in -1 .. MaxTypeCode}

\* MoveTo x1 (+1, +2)
OnePoint == <<W(9), W(2), W(4)>>

\* MoveTo x1 (i32::MAX, -1), LineTo x1 (+1, +2): the cursor leaves the i32 range
Overflowing == <<W(9), MaxDeltaWord, W(1), W(10), W(2), W(4)>>

\* MoveTo x1 (+1, +2), LineTo x1 with one parameter missing
CutShort == <<W(9), W(2), W(4), W(10), W(2)>>

TypeFeatures ==
    {TileFeature(None, t, <<>>, OnePoint) : t \in TypeInputs}
    \cup {TileFeature(None, t, <<>>, g) : t \in {None, Some(3)}, g \in {Overflowing, CutShort}}

KeyInputs == {<<"a", "b">>, <<"a", "a">>}

ValuesInputs ==
    {<<[NoValue EXCEPT !.string_value = Some("s")],
       [NoValue EXCEPT !.uint_value = Some(7), !.bool_value = Some(TRUE)]>>,
     <<NoValue>>}

\* every index a two-entry dictionary has, and one past it
TagInputs == SeqsUpTo(0 .. 2, MaxTags)

ExtentOptions == {None, Some(0), Some(8)}

\* layers of up to MaxFeatures features that differ in type code and geometry
TypeLayers ==
    {TileLayer(e, <<>>, <<>>, fs) : e \in ExtentOptions, fs \in SeqsUpTo(TypeFeatures, MaxFeatures)}

\* layers of one feature that differ in the tag array and the dictionaries
TagLayers ==
    {TileLayer(None, ks, vs, <<TileFeature(Some(7), Some(1), tags, OnePoint)>>) :
        ks \in KeyInputs, vs \in ValuesInputs, tags \in TagInputs}

\* layers that follow one another in a tile
PairLayers ==
    {TileLayer(e, <<"a">>, <<NoValue>>, fs) :
        e \in ExtentOptions,
        fs \in {<<>>, <<TileFeature(Some(7), Some(2), <<0, 0>>, OnePoint \o <<W(10), W(2), W(4)>>)>>}}

TileInputs ==
    {<<>>} \cup {<<l>> : l \in TypeLayers \cup TagLayers}
    \cup {<<a, b>> : a \in PairLayers, b \in PairLayers}

Init ==
    /\ tile \in TileInputs
    /\ overflow_checks \in BOOLEAN
    /\ pc = "layer_loop"
    /\ layers = <<>>
    /\ layer_i = 0
    /\ features = <<>>
    /\ feature_i = 0
    /\ extent = DEFAULT_EXTENT
    /\ geom_type = "Unknown"
    /\ geometry = <<>>
    /\ coordinates = <<>>
    /\ x = 0
    /\ y = 0
    /\ i = 0
    /\ rep = 0
    /\ ret = None
    /\ properties = EmptyMap
    /\ tag_i = 0
    /\ trunc = None
    /\ call = <<"mvt_to_json">>

Next ==
    \/ MJ_Layer
    \/ MJ_Feature
    \/ DG_Command
    \/ DG_MoveTo
    \/ DG_LineTo
    \/ DG_Return
    \/ MJ_Properties
    \/ MJ_Tag
    \/ MJ_PushFeature
    \/ MJ_PushLayer

Spec == Init /\ [][Next]_vars

(***************************************************************************)
(* C3: decoding a parsed tile never fails.  (With overflow checks on, the   *)
(* cursor addition panics when the sum leaves the i32 range.)               *)
(***************************************************************************)
DecodeNeverFails == pc # "panic"

(***************************************************************************)
(* C4: after the tag loop covered the first n tag integers, the property    *)
(* mapping holds exactly the keys of the complete pairs (key_idx, val_idx)  *)
(* among them with key_idx < len(keys) and val_idx < len(values), each key  *)
(* with the converted value of the last such pair that resolves to it; an   *)
(* out-of-range pair and an unpaired last index add nothing.  The same      *)
(* holds, for the whole tag array, of every feature in the output.          *)
(***************************************************************************)
ValidPairs(tags, keys, values, n) ==
    {j \in 0 .. (n - 1) : /\ j % 2 = 0
                          /\ j + 1 < Len(tags)
                          /\ At(tags, j) < Len(keys)
                          /\ At(tags, j + 1) < Len(values)}

ResolvesTo(props, tags, keys, values, n) ==
    LET vp == ValidPairs(tags, keys, values, n)
        keyOf(j) == At(keys, At(tags, j))
    IN  /\ DOMAIN props = {keyOf(j) : j \in vp}
        /\ \A k \in DOMAIN props :
              LET last == CHOOSE j \in vp :
                              keyOf(j) = k /\ \A j2 \in vp : keyOf(j2) = k => j2 <= j
              IN  props[k] = convert_value(At(values, At(tags, last + 1)))

AttributeResolution ==
    /\ (pc = "tags") =>
          ResolvesTo(properties, CurrentFeature.tags, CurrentLayer.keys,
                     CurrentLayer.values, tag_i)
    /\ \A l \in 1 .. Len(layers) : \A k \in 1 .. Len(layers[l].features) :
          ResolvesTo(layers[l].features[k].properties, tile[l].features[k].tags,
                     tile[l].keys, tile[l].values, Len(tile[l].features[k].tags))

\* the tag loop ended on the pairs (0,0), (2,0), (1,1) with both keys "a": the
\* out-of-range pair is left out and the later value, of a different index, is kept
AttributeWitness ==
    /\ pc = "tags"
    /\ tag_i >= Len(CurrentFeature.tags)
    /\ CurrentLayer.keys = <<"a", "a">>
    /\ Len(CurrentLayer.values) = 2
    /\ CurrentFeature.tags = <<0, 0, 2, 0, 1, 1>>
    /\ DOMAIN properties = {"a"}
    /\ properties["a"] = JInt(7)

(***************************************************************************)
(* C9: every feature put out carries the type string "Point", "LineString"  *)
(* or "Polygon" exactly for the type codes 1, 2, 3 and "Unknown" for an     *)
(* absent code and every other code; the features put out are those taken   *)
(* from the input, in order, and on return every layer has as many features *)
(* as its input layer.  Resolving a type code never aborts the decode: the  *)
(* only panic there is is the cursor's arithmetic overflow.                 *)
(***************************************************************************)
TypeName(type) ==
    IF type = Some(1) THEN "Point"
    ELSE IF type = Some(2) THEN "LineString"
    ELSE IF type = Some(3) THEN "Polygon"
    ELSE "Unknown"

FeaturesMatch(out, in) ==
    \A k \in 1 .. Len(out) :
        /\ out[k].geometry.type_ = TypeName(in[k].type)
        /\ out[k].id = in[k].id
        /\ out[k].type_ = "Feature"

MaxSmallWord == 24

\* the words with all bits, all bits but the lowest, only the top bit, all but the top bit
ExtremeWords == {<<HalfMax, HalfMax>>, <<HalfMax, HalfMax - 1>>,
                 <<Half \div 2, 0>>, <<(Half \div 2) - 1, HalfMax>>,
                 <<1, 0>>, <<0, HalfMax>>, <<HalfMax, 0>>}

I32Samples == (-MaxSmallWord .. MaxSmallWord)
              \cup {MaxI32, MaxI32 - 1, MinI32, MinI32 + 1, 2^30, -(2^30),
                    Half, Half - 1, -Half, (-Half) - 1}

\* the encoder the decoder inverts: (d << 1) ^ (d >> 31) on the bits of d
zigzag_encode(d) ==
    Xor32(Shl32(AsU32(d), 1), IF d < 0 THEN <<HalfMax, HalfMax>> ELSE W(0))

ZigzagInputs == {W(n) : n \in 0 .. MaxSmallWord} \cup ExtremeWords
                \cup {zigzag_encode(d) : d \in I32Samples}

CommandInputs == {W(n) : n \in 0 .. MaxSmallWord} \cup ExtremeWords

ValueInputs ==
    [string_value : {None, Some("s")},
     float_value  : {None, Some(Fin(3, 2)), Some(NaN)},
     double_value : {None, Some(Fin(5, 2))},
     int_value    : {None, Some(-1)},
     uint_value   : {None, Some(7)},
     sint_value   : {None, Some(-3)},
     bool_value   : {None, Some(TRUE)}]

\* the variables of the tile decoder, at rest
DecoderIdle ==
    /\ overflow_checks = FALSE
    /\ tile = <<>>
    /\ layers = <<>>
    /\ layer_i = 0
    /\ features = <<>>
    /\ feature_i = 0
    /\ extent = DEFAULT_EXTENT
    /\ geom_type = "Unknown"
    /\ geometry = <<>>
    /\ coordinates = <<>>
    /\ x = 0
    /\ y = 0
    /\ i = 0
    /\ rep = 0
    /\ properties = EmptyMap
    /\ tag_i = 0
    /\ trunc = None

decoderVars == <<overflow_checks, tile, layers, layer_i, features, feature_i, extent,
                 geom_type, geometry, coordinates, x, y, i, rep, properties, tag_i,
                 trunc>>

InitPure ==
    /\ pc = "call"
    /\ ret = None
    /\ \/ \E v \in ZigzagInputs : call = <<"decode_zigzag", v>>
       \/ \E c \in CommandInputs : call = <<"parse_command", c>>
       \/ \E v \in ValueInputs : call = <<"convert_value", v>>
    /\ DecoderIdle

Call_decode_zigzag ==
    /\ pc = "call"
    /\ call[1] = "decode_zigzag"
    /\ ret' = decode_zigzag(call[2])
    /\ pc' = "returned"
    /\ UNCHANGED <<call, decoderVars>>

Call_parse_command ==
    /\ pc = "call"
    /\ call[1] = "parse_command"
    /\ ret' = parse_command(call[2])
    /\ pc' = "returned"
    /\ UNCHANGED <<call, decoderVars>>

Call_convert_value ==
    /\ pc = "call"
    /\ call[1] = "convert_value"
    /\ ret' = convert_value(call[2])
    /\ pc' = "returned"
    /\ UNCHANGED <<call, decoderVars>>

NextPure == Call_decode_zigzag \/ Call_parse_command \/ Call_convert_value

SpecPure == InitPure /\ [][NextPure]_vars

(***************************************************************************)
(* C7: decode_zigzag is defined on every u32 and returns an i32; it equals  *)
(* v div 2 for even v and -(v div 2) - 1 for odd v (so even inputs give     *)
(* non-negative and odd inputs negative results), maps 0,1,2,3,4 to         *)
(* 0,-1,1,-2,2, and inverts zigzag_encode on every signed 32-bit value.     *)
(***************************************************************************)
ZigzagLaw ==
    (pc = "returned" /\ call[1] = "decode_zigzag") =>
        LET v == call[2]
            half == (v[1] * (Half \div 2)) + (v[2] \div 2)
            odd == (v[2] % 2) = 1
        IN  /\ ret >= MinI32 /\ ret <= MaxI32
            /\ ret = (IF odd THEN (-half) - 1 ELSE half)
            /\ (odd <=> ret < 0)
            /\ (v = W(0) => ret = 0)
            /\ (v = W(1) => ret = -1)
            /\ (v = W(2) => ret = 1)
            /\ (v = W(3) => ret = -2)
            /\ (v = W(4) => ret = 2)
            /\ \A d \in I32Samples : (zigzag_encode(d) = v) => ret = d

\* decode_zigzag has run on the encoding of the smallest i32, an odd word
ZigzagWitness ==
    /\ pc = "returned"
    /\ call = <<"decode_zigzag", zigzag_encode(MinI32)>>
    /\ call[2] = <<HalfMax, HalfMax>>
    /\ ret = MinI32

(***************************************************************************)
(* C8: parse_command(c) = (c mod 8, c div 8) for every u32 c; the id is in  *)
(* 0..7, c = count * 8 + id, and 9, 18, 15 parse to (1,1), (2,2), (7,1).    *)
(***************************************************************************)
ParseCommandLaw ==
    (pc = "returned" /\ call[1] = "parse_command") =>
        LET c == call[2]
            id == ret[1]
            count == ret[2]
        IN  /\ id = c[2] % 8
            /\ count = (c[1] * (Half \div 8)) + (c[2] \div 8)
            /\ id \in 0 .. 7
            /\ c = <<count \div (Half \div 8), ((count % (Half \div 8)) * 8) + id>>
            /\ (c = W(9) => ret = <<1, 1>>)
            /\ (c = W(18) => ret = <<2, 2>>)
            /\ (c = W(15) => ret = <<7, 1>>)

\* parse_command has run on 15 (ClosePath, count 1)
ParseCommandWitness ==
    /\ pc = "returned"
    /\ call = <<"parse_command", W(15)>>
    /\ ret = <<7, 1>>

(***************************************************************************)
(* C10: convert_value returns the JSON value of the first populated field   *)
(* in the order string, float, double, int, uint, sint, bool, also when     *)
(* several fields are populated, and null when none is.                     *)
(***************************************************************************)
FieldOrder == <<"string_value", "float_value", "double_value", "int_value",
                "uint_value", "sint_value", "bool_value">>

FieldJson(name, v) ==
    CASE name = "string_value" -> JStr(v)
      [] name \in {"float_value", "double_value"} -> JsonFloat(v)
      [] name \in {"int_value", "uint_value", "sint_value"} -> JInt(v)
      [] name = "bool_value" -> JBool(v)

ConvertValuePrecedence ==
    (pc = "returned" /\ call[1] = "convert_value") =>
        LET value == call[2]
            populated == {k \in 1 .. Len(FieldOrder) : value[FieldOrder[k]] # None}
        IN  IF populated = {}
            THEN ret = JNull
            ELSE LET first == CHOOSE k \in populated : \A j \in populated : k <= j
                 IN  ret = FieldJson(FieldOrder[first], value[FieldOrder[first]][1])

\* convert_value has run on a value with int, uint, sint and bool all populated
ConvertValueWitness ==
    /\ pc = "returned"
    /\ call[1] = "convert_value"
    /\ call[2].string_value = None
    /\ call[2].float_value = None
    /\ call[2].double_value = None
    /\ call[2].int_value = Some(-1)
    /\ call[2].uint_value = Some(7)
    /\ call[2].sint_value # None
    /\ call[2].bool_value # None
    /\ ret = JInt(-1)

====
